---- MODULE Spec2Model ----
(***************************************************************************)
(* wit-docs-inject: the injector (src/main.rs) appends a `package-docs`    *)
(* custom section to a component, and the viewer (src/bin/wit-docs-view.rs)*)
(* extracts it and weaves the documentation into a WIT rendering.          *)
(*                                                                         *)
(* A string (Rust str, a JSON string or key) is a sequence of code points; *)
(* the data of a section, and a JSON text, is a sequence of bytes 0..255.  *)
(* The JSON writer encodes code points as UTF-8 and the JSON reader        *)
(* decodes them, so lengths and slices of section data count bytes, and    *)
(* str::len and str::find count the bytes of the UTF-8 encoding.           *)
(***************************************************************************)
EXTENDS Integers, Sequences, FiniteSets, TLC

(* ------------------------------ bounds -------------------------------- *)
MaxLines == 3
MaxSections == 2
MaxInject == 1

(* ----------------------------- characters ----------------------------- *)
\* the characters 0x20 .. 0x7E, in order ("<96>" is the grave accent)
Ascii ==
  <<" ", "!", "\"", "#", "$", "%", "&", "'", "(", ")", "*", "+",
    ",", "-", ".", "/", "0", "1", "2", "3", "4", "5", "6", "7",
    "8", "9", ":", ";", "<", "=", ">", "?", "@", "A", "B", "C",
    "D", "E", "F", "G", "H", "I", "J", "K", "L", "M", "N", "O",
    "P", "Q", "R", "S", "T", "U", "V", "W", "X", "Y", "Z", "[",
    "\\", "]", "^", "_", "<96>", "a", "b", "c", "d", "e", "f", "g",
    "h", "i", "j", "k", "l", "m", "n", "o", "p", "q", "r", "s",
    "t", "u", "v", "w", "x", "y", "z", "{", "|", "}", "~">>

\* the code point of a character written as a literal
Code(c) ==
  CASE c = "\t" -> 9
    [] c = "\n" -> 10
    [] c = "\r" -> 13
    [] OTHER -> 31 + (CHOOSE k \in 1..95 : Ascii[k] = c)

\* the string of a literal written character by character
Chars(t) == [k \in 1..Len(t) |-> Code(t[k])]

\* the characters the code names in a literal
QUOTE == Code("\"")
BACKSLASH == Code("\\")
LF == Code("\n")
CR == Code("\r")
COLON == Code(":")
Ch ==
  [space |-> Code(" "), plus |-> Code("+"), comma |-> Code(","),
   minus |-> Code("-"), dot |-> Code("."), slash |-> Code("/"),
   zero |-> Code("0"), nine |-> Code("9"), A |-> Code("A"), E |-> Code("E"),
   F |-> Code("F"), lbracket |-> Code("["), tab |-> Code("\t"),
   rbracket |-> Code("]"), a |-> Code("a"), b |-> Code("b"), e |-> Code("e"),
   f |-> Code("f"), n |-> Code("n"), r |-> Code("r"), t |-> Code("t"),
   u |-> Code("u"), x |-> Code("x"), lbrace |-> Code("{"),
   rbrace |-> Code("}")]

\* char::is_whitespace: the code points with the White_Space property
WS ==
  (9..13) \cup {32, 133, 160, 5760} \cup (8192..8202)
          \cup {8232, 8233, 8239, 8287, 12288}

NL == <<LF>>

(* ------------------------- string primitives -------------------------- *)
\* char::len_utf8
len_utf8(c) ==
  IF c < 128 THEN 1 ELSE IF c < 2048 THEN 2 ELSE IF c < 65536 THEN 3 ELSE 4

\* str::len: the number of bytes of the UTF-8 encoding
RECURSIVE str_len(_)
str_len(s) == IF s = <<>> THEN 0 ELSE len_utf8(Head(s)) + str_len(Tail(s))

\* &s[..n] for a byte offset n on a character boundary
RECURSIVE slice_to(_, _)
slice_to(s, n) ==
  IF n <= 0 \/ s = <<>> THEN <<>>
  ELSE <<Head(s)>> \o slice_to(Tail(s), n - len_utf8(Head(s)))

starts_with(s, p) ==
  /\ Len(p) <= Len(s)
  /\ SubSeq(s, 1, Len(p)) = p

RECURSIVE trim_start(_)
trim_start(s) ==
  IF s = <<>> THEN <<>>
  ELSE IF Head(s) \in WS THEN trim_start(Tail(s))
  ELSE s

RECURSIVE trim_end(_)
trim_end(s) ==
  IF s = <<>> THEN <<>>
  ELSE IF s[Len(s)] \in WS THEN trim_end(SubSeq(s, 1, Len(s) - 1))
  ELSE s

trim(s) == trim_end(trim_start(s))

\* str::find(c): the byte offset of the first c, or -1 for None
find(s, c) ==
  IF \E k \in 1..Len(s) : s[k] = c
  THEN LET k == CHOOSE k \in 1..Len(s) : s[k] = c /\ \A j \in 1..(k - 1) : s[j] # c
       IN str_len(SubSeq(s, 1, k - 1))
  ELSE -1

\* str::split_whitespace: the maximal runs of non-whitespace, in order
RECURSIVE split_ws_from(_, _, _)
split_ws_from(s, cur, acc) ==
  IF s = <<>> THEN (IF cur = <<>> THEN acc ELSE Append(acc, cur))
  ELSE IF Head(s) \in WS
       THEN split_ws_from(Tail(s), <<>>, IF cur = <<>> THEN acc ELSE Append(acc, cur))
       ELSE split_ws_from(Tail(s), Append(cur, Head(s)), acc)

split_whitespace(s) == split_ws_from(s, <<>>, <<>>)

\* str::lines: split after every line feed; a piece loses its line feed
\* and then one carriage return before it; a final piece without a line
\* feed is kept as it is; no final empty piece
strip_line(piece) ==
  IF piece # <<>> /\ piece[Len(piece)] = LF
  THEN LET a == SubSeq(piece, 1, Len(piece) - 1)
       IN IF a # <<>> /\ a[Len(a)] = CR THEN SubSeq(a, 1, Len(a) - 1) ELSE a
  ELSE piece

RECURSIVE lines_from(_, _, _)
lines_from(s, cur, acc) ==
  IF s = <<>> THEN (IF cur = <<>> THEN acc ELSE Append(acc, strip_line(cur)))
  ELSE IF Head(s) = LF
       THEN lines_from(Tail(s), <<>>, Append(acc, strip_line(Append(cur, LF))))
       ELSE lines_from(Tail(s), Append(cur, Head(s)), acc)

str_lines(s) == lines_from(s, <<>>, <<>>)

RECURSIVE concat(_)
concat(ss) == IF ss = <<>> THEN <<>> ELSE Head(ss) \o concat(Tail(ss))

\* the order of strings (and of the keys of a JSON object): byte by byte,
\* which for UTF-8 is code point by code point
RECURSIVE str_lt(_, _)
str_lt(a, b) ==
  IF b = <<>> THEN FALSE
  ELSE IF a = <<>> THEN TRUE
  ELSE IF Head(a) # Head(b) THEN Head(a) < Head(b)
  ELSE str_lt(Tail(a), Tail(b))

(* --------------------------- serde_json::Value ------------------------ *)
\* Option::None of a lookup
None == [kind |-> "none", val |-> <<>>]
Null == [kind |-> "null", val |-> <<>>]
Bool(b) == [kind |-> "bool", val |-> b]
\* an integer that fits u64 or i64: its decimal digits, "-" first if negative
Num(digits) == [kind |-> "number", val |-> digits]
Str(s) == [kind |-> "string", val |-> s]
Arr(vs) == [kind |-> "array", val |-> vs]
\* an object is a function from its keys (strings) to values
Obj(f) == [kind |-> "object", val |-> f]
EmptyMap == [k \in {} |-> None]

\* Value::get(key): Some only on an object that has the key
get(v, key) ==
  IF v.kind = "object" /\ key \in DOMAIN v.val THEN v.val[key] ELSE None

as_object(v) == IF v.kind = "object" THEN v ELSE None
as_str(v) == IF v.kind = "string" THEN v ELSE None

K_worlds == Chars(<<"w","o","r","l","d","s">>)
K_docs == Chars(<<"d","o","c","s">>)
K_func_exports == Chars(<<"f","u","n","c","_","e","x","p","o","r","t","s">>)
K_functions == Chars(<<"f","u","n","c","t","i","o","n","s">>)

(* ------------------------- WitDocInjector helpers --------------------- *)
KW_world == Chars(<<"w","o","r","l","d"," ">>)
KW_export == Chars(<<"e","x","p","o","r","t"," ">>)
KW_import == Chars(<<"i","m","p","o","r","t"," ">>)
S_unknown == Chars(<<"u","n","k","n","o","w","n">>)
S_doc == Chars(<<"/","/","/"," ">>)
S_close == Chars(<<"}">>)

extract_world_name(line) ==
  LET parts == split_whitespace(line)
  IN IF Len(parts) >= 2 THEN parts[2] ELSE S_unknown

\* Option<String>: None, or Str(name)
extract_function_name(line) ==
  LET colon_pos == find(line, COLON)
  IN IF colon_pos >= 0
     THEN LET parts == split_whitespace(slice_to(line, colon_pos))
          IN IF Len(parts) >= 2 THEN Str(parts[2]) ELSE None
     ELSE None

get_indent_trim(line) ==
  LET trimmed_len == str_len(trim(line))
  IN slice_to(line, str_len(line) - trimmed_len)

get_indent(line) ==
  LET trimmed_len == str_len(trim_start(line))
  IN slice_to(line, str_len(line) - trimmed_len)
get_world_docs_any(d, world_name) ==
  LET worlds == as_object(get(d, K_worlds))
  IN IF worlds = None THEN None
     ELSE IF world_name \in DOMAIN worlds.val
          THEN as_str(get(worlds.val[world_name], K_docs))
     ELSE IF Cardinality(DOMAIN worlds.val) >= 1
          THEN LET k == CHOOSE k \in DOMAIN worlds.val : TRUE
               IN as_str(get(worlds.val[k], K_docs))
     ELSE None

get_world_docs(d, world_name) ==
  LET worlds == as_object(get(d, K_worlds))
  IN IF worlds = None THEN None
     ELSE IF world_name \in DOMAIN worlds.val
          THEN as_str(get(worlds.val[world_name], K_docs))
     ELSE IF Cardinality(DOMAIN worlds.val) = 1
          THEN LET k == CHOOSE k \in DOMAIN worlds.val : TRUE
               IN as_str(get(worlds.val[k], K_docs))
     ELSE None

get_function_docs_from_world(world, func_name) ==
  LET fe == get(world, K_func_exports)
      coll == IF fe # None THEN fe ELSE get(world, K_functions)
      functions == as_object(coll)
      func == IF functions = None THEN None ELSE get(functions, func_name)
  IN as_str(get(func, K_docs))

get_function_docs_exact(d, world_name, func_name) ==
  LET worlds == as_object(get(d, K_worlds))
  IN IF worlds = None THEN None
     ELSE IF world_name \in DOMAIN worlds.val
          THEN get_function_docs_from_world(worlds.val[world_name], func_name)
     ELSE None

get_function_docs(d, world_name, func_name) ==
  LET worlds == as_object(get(d, K_worlds))
  IN IF worlds = None THEN None
     ELSE IF world_name \in DOMAIN worlds.val
          THEN get_function_docs_from_world(worlds.val[world_name], func_name)
     ELSE IF Cardinality(DOMAIN worlds.val) = 1
          THEN LET k == CHOOSE k \in DOMAIN worlds.val : TRUE
               IN get_function_docs_from_world(worlds.val[k], func_name)
     ELSE None

RECURSIVE doc_block_noprefix(_, _)
doc_block_noprefix(indent, doc_lines) ==
  IF doc_lines = <<>> THEN <<>>
  ELSE indent \o Head(doc_lines) \o NL \o doc_block_noprefix(indent, Tail(doc_lines))

\* the comment lines pushed for Some(docs): format!("{}/// {}\n", indent, doc_line)
RECURSIVE doc_block(_, _)
doc_block(indent, doc_lines) ==
  IF doc_lines = <<>> THEN <<>>
  ELSE indent \o S_doc \o Head(doc_lines) \o NL \o doc_block(indent, Tail(doc_lines))

(* ------------------- serde_json: to_vec and from_slice ---------------- *)
\* A JSON text is a sequence of bytes.  The values are null, booleans,
\* integers that fit u64 or i64, strings, arrays and objects; an f64 (a
\* literal with a fraction or an exponent, or an integer outside u64 and
\* i64) is outside the model, and the operators have no value on it.
JsonWS == {Ch.space, Ch.tab, LF, CR}
Digits == Ch.zero..Ch.nine
W_null == Chars(<<"n","u","l","l">>)
W_true == Chars(<<"t","r","u","e">>)
W_false == Chars(<<"f","a","l","s","e">>)

\* the UTF-8 encoding of a code point
utf8(c) ==
  IF c < 128 THEN <<c>>
  ELSE IF c < 2048 THEN <<192 + (c \div 64), 128 + (c % 64)>>
  ELSE IF c < 65536
       THEN <<224 + (c \div 4096), 128 + ((c \div 64) % 64), 128 + (c % 64)>>
  ELSE <<240 + (c \div 262144), 128 + ((c \div 4096) % 64),
         128 + ((c \div 64) % 64), 128 + (c % 64)>>

\* the lower-case hex digit of n < 16
hex_digit(n) == IF n < 10 THEN Ch.zero + n ELSE Ch.a + (n - 10)

\* the value of a hex digit of either case, or -1
HexVal(b) ==
  IF b \in Digits THEN b - Ch.zero
  ELSE IF b \in Ch.a..Ch.f THEN b - Ch.a + 10
  ELSE IF b \in Ch.A..Ch.F THEN b - Ch.A + 10
  ELSE -1

\* the writer's escape of one character: a two-byte escape for the quote,
\* the backslash, backspace, form feed, line feed, carriage return and
\* tab, u00xx (lower-case hex) for the other characters below 0x20, and
\* the UTF-8 encoding of any other character
escape_char(c) ==
  CASE c = QUOTE -> <<BACKSLASH, QUOTE>>
    [] c = BACKSLASH -> <<BACKSLASH, BACKSLASH>>
    [] c = 8 -> <<BACKSLASH, Ch.b>>
    [] c = 12 -> <<BACKSLASH, Ch.f>>
    [] c = 10 -> <<BACKSLASH, Ch.n>>
    [] c = 13 -> <<BACKSLASH, Ch.r>>
    [] c = 9 -> <<BACKSLASH, Ch.t>>
    [] c < 32 /\ c \notin {8, 9, 10, 12, 13} ->
         <<BACKSLASH, Ch.u, Ch.zero, Ch.zero,
           hex_digit(c \div 16), hex_digit(c % 16)>>
    [] OTHER -> utf8(c)

RECURSIVE escape(_)
escape(s) == IF s = <<>> THEN <<>> ELSE escape_char(Head(s)) \o escape(Tail(s))

quote(s) == <<QUOTE>> \o escape(s) \o <<QUOTE>>

\* the least key of a non-empty set of keys: a map is written in key order
min_key(ks) == CHOOSE k \in ks : \A j \in ks \ {k} : str_lt(k, j)

RECURSIVE to_json(_)
RECURSIVE members_json(_, _)
RECURSIVE elements_json(_)
to_json(v) ==
  CASE v.kind = "null" -> W_null
    [] v.kind = "bool" ->
         IF v.val THEN W_true ELSE W_false
    [] v.kind = "number" -> v.val
    [] v.kind = "string" -> quote(v.val)
    [] v.kind = "array" -> <<Ch.lbracket>> \o elements_json(v.val) \o <<Ch.rbracket>>
    [] v.kind = "object" ->
         <<Ch.lbrace>> \o members_json(v.val, DOMAIN v.val) \o <<Ch.rbrace>>

members_json(f, ks) ==
  IF ks = {} THEN <<>>
  ELSE LET k == min_key(ks)
       IN quote(k) \o <<COLON>> \o to_json(f[k])
            \o (IF ks \ {k} = {} THEN <<>>
                ELSE <<Ch.comma>> \o members_json(f, ks \ {k}))

elements_json(vs) ==
  IF vs = <<>> THEN <<>>
  ELSE to_json(Head(vs))
         \o (IF Tail(vs) = <<>> THEN <<>> ELSE <<Ch.comma>> \o elements_json(Tail(vs)))

\* a parse result: ok, the value, the position after it
Fail == [ok |-> FALSE, val |-> None, pos |-> 0]
Parsed(v, p) == [ok |-> TRUE, val |-> v, pos |-> p]

\* the deserializer's remaining_depth: an array or object nested this deep
\* is an error
RECURSION_LIMIT == 128

RECURSIVE skip_ws(_, _)
skip_ws(s, p) == IF p <= Len(s) /\ s[p] \in JsonWS THEN skip_ws(s, p + 1) ELSE p

\* the four hex digits at p: their value, or -1
hex4(s, p) ==
  IF p + 3 <= Len(s) /\ \A k \in p..(p + 3) : HexVal(s[k]) >= 0
  THEN HexVal(s[p]) * 4096 + HexVal(s[p + 1]) * 256 + HexVal(s[p + 2]) * 16 + HexVal(s[p + 3])
  ELSE -1

\* a uXXXX escape with p at its first hex digit: [code, pos after it],
\* code -1 for an error; a high surrogate needs a low surrogate escape
\* right after it, and a low surrogate cannot come first
bad_escape == [code |-> -1, pos |-> 0]

\* n is the high surrogate at p, n2 the value of the escape after it
surrogate_pair(p, n, n2) ==
  IF n2 >= 56320 /\ n2 <= 57343
  THEN [code |-> 65536 + (n - 55296) * 1024 + (n2 - 56320), pos |-> p + 10]
  ELSE bad_escape

\* n is the value of the four hex digits at p
escape_value(s, p, n) ==
  IF n < 0 \/ (n >= 56320 /\ n <= 57343) THEN bad_escape
  ELSE IF n >= 55296 /\ n <= 56319
       THEN IF p + 5 <= Len(s) /\ s[p + 4] = BACKSLASH /\ s[p + 5] = Ch.u
            THEN surrogate_pair(p, n, hex4(s, p + 6))
            ELSE bad_escape
  ELSE [code |-> n, pos |-> p + 4]

unicode_escape(s, p) == escape_value(s, p, hex4(s, p))

\* the character of a two-byte escape
unescape(b) ==
  CASE b = Ch.n -> 10
    [] b = Ch.r -> 13
    [] b = Ch.t -> 9
    [] b = Ch.b -> 8
    [] b = Ch.f -> 12
    [] OTHER -> b

SimpleEscapes ==
  {QUOTE, BACKSLASH, Ch.slash, Ch.b, Ch.f, Ch.n, Ch.r, Ch.t}

\* byte k of s is there and lies in lo..hi
byte_in(s, k, lo, hi) == k <= Len(s) /\ s[k] >= lo /\ s[k] <= hi

\* str::from_utf8 on the sequence that starts at byte p >= 0x80:
\* [code, len], code -1 when the bytes are not the encoding of a scalar
\* value (a stray continuation byte, an overlong form, a surrogate, a
\* value above 0x10FFFF, a sequence cut short)
decode_utf8(s, p) ==
  LET b == s[p]
      c1 == s[p + 1] - 128
      c2 == s[p + 2] - 128
      c3 == s[p + 3] - 128
      bad == [code |-> -1, len |-> 0]
  IN IF b >= 194 /\ b <= 223
     THEN IF byte_in(s, p + 1, 128, 191)
          THEN [code |-> (b - 192) * 64 + c1, len |-> 2] ELSE bad
     ELSE IF b >= 224 /\ b <= 239
     THEN IF /\ byte_in(s, p + 1, IF b = 224 THEN 160 ELSE 128, IF b = 237 THEN 159 ELSE 191)
             /\ byte_in(s, p + 2, 128, 191)
          THEN [code |-> (b - 224) * 4096 + c1 * 64 + c2, len |-> 3] ELSE bad
     ELSE IF b >= 240 /\ b <= 244
     THEN IF /\ byte_in(s, p + 1, IF b = 240 THEN 144 ELSE 128, IF b = 244 THEN 143 ELSE 191)
             /\ byte_in(s, p + 2, 128, 191)
             /\ byte_in(s, p + 3, 128, 191)
          THEN [code |-> (b - 240) * 262144 + c1 * 4096 + c2 * 64 + c3, len |-> 4] ELSE bad
     ELSE bad

RECURSIVE parse_str(_, _, _)

\* u is the uXXXX escape just read
str_escaped(s, acc, u) ==
  IF u.code < 0 THEN Fail ELSE parse_str(s, u.pos, Append(acc, u.code))

\* d is the UTF-8 sequence at p
str_utf8(s, p, acc, d) ==
  IF d.code < 0 THEN Fail ELSE parse_str(s, p + d.len, Append(acc, d.code))

\* p is after the opening quote; acc is the string read so far
parse_str(s, p, acc) ==
  IF p > Len(s) THEN Fail
  ELSE IF s[p] = QUOTE THEN Parsed(Str(acc), p + 1)
  ELSE IF s[p] = BACKSLASH
       THEN IF p + 1 > Len(s) THEN Fail
            ELSE IF s[p + 1] \in SimpleEscapes
                 THEN parse_str(s, p + 2, Append(acc, unescape(s[p + 1])))
            ELSE IF s[p + 1] = Ch.u
                 THEN str_escaped(s, acc, unicode_escape(s, p + 2))
            ELSE Fail
  ELSE IF s[p] < 32 THEN Fail
  ELSE IF s[p] < 128 THEN parse_str(s, p + 1, Append(acc, s[p]))
  ELSE str_utf8(s, p, acc, decode_utf8(s, p))

\* the position after the digits that start at p
RECURSIVE scan_digits(_, _)
scan_digits(s, p) == IF p <= Len(s) /\ s[p] \in Digits THEN scan_digits(s, p + 1) ELSE p

U64_MAX == Chars(<<"1","8","4","4","6","7","4","4","0","7","3","7","0","9","5","5","1","6","1","5">>)
I64_MIN_ABS == Chars(<<"9","2","2","3","3","7","2","0","3","6","8","5","4","7","7","5","8","0","8">>)

\* an integer literal without leading zeros is a u64 (not negative) or an
\* i64 (negative, and not -0)
fits_integer(negative, digits) ==
  IF negative
  THEN /\ digits # <<Ch.zero>>
       /\ \/ Len(digits) < Len(I64_MIN_ABS)
          \/ Len(digits) = Len(I64_MIN_ABS) /\ ~str_lt(I64_MIN_ABS, digits)
  ELSE \/ Len(digits) < Len(U64_MAX)
       \/ Len(digits) = Len(U64_MAX) /\ ~str_lt(U64_MAX, digits)

\* the value of a number literal that follows the grammar
number_value(negative, digits, float) ==
  CASE ~float /\ fits_integer(negative, digits) ->
         Num((IF negative THEN <<Ch.minus>> ELSE <<>>) \o digits)

\* parse_integer, parse_number, parse_decimal and parse_exponent: p is at
\* "-" or at a digit
parse_number(s, p) ==
  LET negative == s[p] = Ch.minus
      d == IF negative THEN p + 1 ELSE p
      e == scan_digits(s, d)
      has_frac == e <= Len(s) /\ s[e] = Ch.dot
      f == IF has_frac THEN scan_digits(s, e + 1) ELSE e
      has_exp == f <= Len(s) /\ s[f] \in {Ch.e, Ch.E}
      x == IF has_exp /\ f + 1 <= Len(s) /\ s[f + 1] \in {Ch.plus, Ch.minus}
           THEN f + 2 ELSE f + 1
      g == IF has_exp THEN scan_digits(s, x) ELSE f
  IN IF e = d THEN Fail
     ELSE IF s[d] = Ch.zero /\ e > d + 1 THEN Fail
     ELSE IF has_frac /\ f = e + 1 THEN Fail
     ELSE IF has_exp /\ g = x THEN Fail
     ELSE Parsed(number_value(negative, SubSeq(s, d, e - 1), has_frac \/ has_exp), g)

\* depth is the remaining depth: entering an array or an object takes one,
\* and one entered with none left over is an error
RECURSIVE parse_value(_, _, _)
RECURSIVE parse_members(_, _, _, _)
RECURSIVE parse_elements(_, _, _, _)

\* the bytes at p are the word w
ident(s, p, w) == p + Len(w) - 1 <= Len(s) /\ SubSeq(s, p, p + Len(w) - 1) = w

\* p is at the first byte of the value, if there is one
value_at(s, p, depth) ==
  IF p > Len(s) THEN Fail
  ELSE IF s[p] = Ch.n
       THEN IF ident(s, p, W_null) THEN Parsed(Null, p + 4) ELSE Fail
  ELSE IF s[p] = Ch.t
       THEN IF ident(s, p, W_true) THEN Parsed(Bool(TRUE), p + 4)
            ELSE Fail
  ELSE IF s[p] = Ch.f
       THEN IF ident(s, p, W_false) THEN Parsed(Bool(FALSE), p + 5)
            ELSE Fail
  ELSE IF s[p] = Ch.minus \/ s[p] \in Digits THEN parse_number(s, p)
  ELSE IF s[p] = QUOTE THEN parse_str(s, p + 1, <<>>)
  ELSE IF s[p] = Ch.lbracket
       THEN IF depth - 1 = 0 THEN Fail
            ELSE LET q == skip_ws(s, p + 1)
                 IN IF q <= Len(s) /\ s[q] = Ch.rbracket THEN Parsed(Arr(<<>>), q + 1)
                    ELSE parse_elements(s, q, <<>>, depth - 1)
  ELSE IF s[p] = Ch.lbrace
       THEN IF depth - 1 = 0 THEN Fail
            ELSE LET q == skip_ws(s, p + 1)
                 IN IF q <= Len(s) /\ s[q] = Ch.rbrace THEN Parsed(Obj(EmptyMap), q + 1)
                    ELSE parse_members(s, q, EmptyMap, depth - 1)
  ELSE Fail

parse_value(s, p0, depth) == value_at(s, skip_ws(s, p0), depth)

\* after a member: g holds the members read so far, e is at the next byte
member_end(s, g, e, depth) ==
  IF e > Len(s) THEN Fail
  ELSE IF s[e] = Ch.rbrace THEN Parsed(Obj(g), e + 1)
  ELSE IF s[e] = Ch.comma THEN parse_members(s, e + 1, g, depth)
  ELSE Fail

\* v is the parse of the member's value (a later duplicate of a key
\* replaces the earlier one)
member_value(s, key, v, f, depth) ==
  IF ~v.ok THEN Fail
  ELSE member_end(s, (key :> v.val) @@ f, skip_ws(s, v.pos), depth)

\* c is at the byte after the key and its whitespace
member_colon(s, key, c, f, depth) ==
  IF c > Len(s) \/ s[c] # COLON THEN Fail
  ELSE member_value(s, key, parse_value(s, c + 1, depth), f, depth)

\* k is the parse of the key
member_key(s, k, f, depth) ==
  IF ~k.ok THEN Fail
  ELSE member_colon(s, k.val.val, skip_ws(s, k.pos), f, depth)

\* p is where the key is expected
member_at(s, p, f, depth) ==
  IF p > Len(s) \/ s[p] # QUOTE THEN Fail
  ELSE member_key(s, parse_str(s, p + 1, <<>>), f, depth)

\* p0 is where a key is expected; f holds the members read so far
parse_members(s, p0, f, depth) == member_at(s, skip_ws(s, p0), f, depth)

\* after an element: acc holds the elements read so far, e is at the next byte
element_end(s, acc, e, depth) ==
  IF e > Len(s) THEN Fail
  ELSE IF s[e] = Ch.rbracket THEN Parsed(Arr(acc), e + 1)
  ELSE IF s[e] = Ch.comma THEN parse_elements(s, e + 1, acc, depth)
  ELSE Fail

\* v is the parse of the element
element_value(s, v, acc, depth) ==
  IF ~v.ok THEN Fail
  ELSE element_end(s, Append(acc, v.val), skip_ws(s, v.pos), depth)

\* p0 is where an element is expected; acc holds the elements read so far
parse_elements(s, p0, acc, depth) == element_value(s, parse_value(s, p0, depth), acc, depth)

\* the parse r is of the whole text but for whitespace
whole(s, r) == IF r.ok /\ skip_ws(s, r.pos) > Len(s) THEN r ELSE Fail

\* serde_json::from_slice: one value, then only whitespace
from_slice(s) == whole(s, parse_value(s, 1, RECURSION_LIMIT))

(* ------------------------ modules and sections ------------------------ *)
SECTION_NAME == Chars(<<"p","a","c","k","a","g","e","-","d","o","c","s">>)
\* the version byte PackageMetadata::encode writes first: 0x01
VERSION_BYTE == 1

Custom(name, data) == [kind |-> "custom", name |-> name, data |-> data]
\* a section that is not a custom section
S_other == [kind |-> "other", name |-> <<>>, data |-> Chars(<<"x">>)]
\* bytes the parser cannot read as a section
S_corrupt == [kind |-> "corrupt", name |-> <<>>, data |-> <<>>]

\* PackageMetadata::encode: the version byte, then the JSON of the docs
encode(meta) == <<VERSION_BYTE>> \o to_json(meta)

(* ------------------------------- state -------------------------------- *)
VARIABLES
  files,       \* the file system: path -> file (a module's sections), or NoFile
  injects,     \* how many times the injector has run
  inj_exit,    \* the injector's last result: "none", "ok", "err"
  meta,        \* the injector's last run: the documentation extracted from the WIT dir
  out_path,    \* the injector's last run: the path it writes to
  wasm_bytes,  \* the viewer's last run: the file it read
  docs_json,   \* the viewer's last run: the result of extract_package_docs
  wit_text,    \* inject_docs_into_wit: the rendering (argument)
  docs,        \* inject_docs_into_wit: the documentation value (argument)
  lines,       \* inject_docs_into_wit: wit_text.lines().collect()
  i,           \* inject_docs_into_wit: the line index (0-based)
  result,      \* inject_docs_into_wit: the output string
  world_name,  \* inject_docs_into_wit: the name of the world scope entered last
  pc,          \* inject_docs_into_wit: "start", "top", "body", "done"
  trace        \* history: one entry per line pushed to result

modvars == <<files, injects, inj_exit, meta, out_path, wasm_bytes, docs_json>>
witvars == <<wit_text, docs, lines, i, result, world_name, pc, trace>>
vars == <<files, injects, inj_exit, meta, out_path, wasm_bytes, docs_json,
          wit_text, docs, lines, i, result, world_name, pc, trace>>

(* ------------------------ inputs of the weaver ------------------------ *)
N_app == Chars(<<"a","p","p">>)
N_other == Chars(<<"o","t","h","e","r">>)
N_w1 == Chars(<<"w","1">>)
N_w2 == Chars(<<"w","2">>)
N_run == Chars(<<"r","u","n">>)
N_foo == Chars(<<"f","o","o">>)

L_world_app == KW_world \o N_app \o Chars(<<" ","{">>)
L_world_other == Chars(<<" ">>) \o KW_world \o N_other \o Chars(<<" ","{">>)
L_export_run ==
  Chars(<<" "," ">>) \o KW_export \o N_run \o Chars(<<":"," ","f","u","n","c","(",")",";">>)
L_import_foo == Chars(<<"\t">>) \o KW_import \o N_foo \o Chars(<<":"," ","f",";"," ">>)
L_close == Chars(<<"}">>)
L_export_nocolon == KW_export \o N_run \o Chars(<<";">>)
L_empty == <<>>

LinePool ==
  {L_world_app, L_world_other, L_export_run, L_import_foo, L_close,
   L_export_nocolon, L_empty}

T_top == Chars(<<"T","o","p"," ","l","e","v","e","l",".">>)
T_runs == Chars(<<"R","u","n","s"," ","i","t",".">>)
T_two == Chars(<<"a","\n","b">>)
T_crlf == Chars(<<"x","\r","\n","y","\n">>)

FuncDoc(s) == Obj(K_docs :> Str(s))

\* the tree of the end-to-end scenario
D_example ==
  Obj(K_worlds :> Obj(N_app :>
    Obj((K_docs :> Str(T_top)) @@ (K_func_exports :> Obj(N_run :> FuncDoc(T_runs))))))

\* one world, not named by any rendering, multi-line docs
D_single ==
  Obj(K_worlds :> Obj(N_w1 :>
    Obj((K_docs :> Str(T_two))
        @@ (K_func_exports :> Obj((N_run :> FuncDoc(T_runs)) @@ (N_foo :> FuncDoc(T_crlf)))))))

\* D_single with the function documentation under the alias `functions`
D_alias ==
  Obj(K_worlds :> Obj(N_w1 :>
    Obj((K_docs :> Str(T_two))
        @@ (K_functions :> Obj((N_run :> FuncDoc(T_runs)) @@ (N_foo :> FuncDoc(T_crlf)))))))

\* two worlds, neither named by any rendering
D_two ==
  Obj(K_worlds :> Obj(
    (N_w1 :> Obj((K_docs :> Str(T_top)) @@ (K_func_exports :> Obj(N_run :> FuncDoc(T_runs)))))
    @@ (N_w2 :> Obj((K_docs :> Str(T_two)) @@ (K_func_exports :> Obj(N_foo :> FuncDoc(T_runs)))))))

\* two worlds, one of them `app`, which has no docs of its own
D_two_app ==
  Obj(K_worlds :> Obj(
    (N_app :> Obj((K_docs :> Null)
                  @@ (K_func_exports :> Obj((N_run :> Obj(EmptyMap)) @@ (N_foo :> FuncDoc(<<>>))))))
    @@ (N_w2 :> Obj((K_docs :> Str(T_two)) @@ (K_func_exports :> Obj(N_run :> FuncDoc(T_runs)))))))

\* both collections: `run` only under `functions`, `foo` under both
D_both ==
  Obj(K_worlds :> Obj(N_app :>
    Obj((K_func_exports :> Obj(N_foo :> FuncDoc(T_top)))
        @@ (K_functions :> Obj((N_run :> FuncDoc(T_runs)) @@ (N_foo :> FuncDoc(T_two)))))))

D_no_worlds == Obj(K_worlds :> Obj(EmptyMap))
D_not_object == Obj(K_worlds :> Str(N_app))

DocPool ==
  {D_example, D_single, D_alias, D_two, D_two_app, D_both, D_no_worlds, D_not_object}

\* the renderings: up to MaxLines lines of the pool, each ended by "\n"
RECURSIVE join_lines(_)
join_lines(ls) == IF ls = <<>> THEN <<>> ELSE Head(ls) \o NL \o join_lines(Tail(ls))

Renderings ==
  {join_lines(ls) : ls \in UNION {[1..n -> LinePool] : n \in 0..MaxLines}}

(* ---------------------- the injector and the viewer ------------------- *)
Paths == {"component", "out"}
NoFile == [exists |-> FALSE, sections |-> <<>>]
File(secs) == [exists |-> TRUE, sections |-> secs]

\* Result<Option<Value>>: tag "some", "none" or "err"; "unset" before a run
Unset == [tag |-> "unset", value |-> None, msg |-> ""]
OkSome(v) == [tag |-> "some", value |-> v, msg |-> ""]
OkNone == [tag |-> "none", value |-> None, msg |-> "No package-docs found in component"]
Err(msg) == [tag |-> "err", value |-> None, msg |-> msg]

\* let json_data = &data[1..]; serde_json::from_slice(json_data)
decode_payload_noskip(data) == from_slice(data)

decode_payload(data) == from_slice(Tail(data))

\* for payload in parser.parse_all(wasm_bytes), from section k on
RECURSIVE extract_from(_, _)
extract_from(secs, k) ==
  IF k > Len(secs) THEN OkNone
  ELSE IF secs[k].kind = "corrupt" THEN Err("Failed to parse WebAssembly")
  ELSE IF /\ secs[k].kind = "custom"
          /\ secs[k].name = SECTION_NAME
          /\ Len(secs[k].data) > 1
       THEN LET r == decode_payload(secs[k].data)
            IN IF r.ok THEN OkSome(r.val) ELSE Err("Failed to parse package-docs JSON")
  ELSE extract_from(secs, k + 1)

extract_package_docs(bytes) == extract_from(bytes.sections, 1)

\* parse_component(&mut rr, &mut out_comp, parser, &input, &input) with
\* RoundtripReencoder is library code: the source shows the call, and that
\* its error ends the run before anything is written.  Its outcome is a
\* choice.  On bytes the parser cannot read it is an error.  On a module
\* the parser reads it is an error (the encoder may refuse what the parser
\* reads) or the sections re-emitted one for one and in order, each under
\* its kind and name, all with the bytes of the input or all with other
\* bytes.
ReFail == [ok |-> FALSE, sections |-> <<>>]
ReOk(secs) == [ok |-> TRUE, sections |-> secs]

\* bytes of a re-emitted section that are not the bytes of the input
RECODED == <<0>>

recode(x) == [x EXCEPT !.data = RECODED]

reemitted(secs) == {secs, [k \in 1..Len(secs) |-> recode(secs[k])]}

reencode(secs) ==
  IF \E k \in 1..Len(secs) : secs[k].kind = "corrupt"
  THEN {ReFail}
  ELSE {ReFail} \cup {ReOk(out) : out \in reemitted(secs)}

\* docs with characters the JSON writer escapes, and some it does not
T_escaped ==
  <<Ch.a, 0, 1, 8, 12, LF, Ch.tab, QUOTE, BACKSLASH, Ch.slash, 127, 233, 8364,
    128512>>

D_escaped == Obj(K_worlds :> Obj(N_w1 :> Obj(K_docs :> Str(T_escaped))))

\* the documentation trees the injector reads from a WIT dir
TreePool == {D_example, D_escaped}

S_custom_other == Custom(Chars(<<"n","a","m","e">>), encode(D_no_worlds))
S_pd_empty == Custom(SECTION_NAME, <<>>)
S_pd_one == Custom(SECTION_NAME, Chars(<<"{">>))
\* an earlier payload, written with escapes of every kind:
\* {"worlds":{"\u0061":{"docs":"\u0041\b\f\/\u00E9\ud83d\uDE00"}}}
S_pd_old ==
  Custom(SECTION_NAME,
    <<VERSION_BYTE>> \o Chars(<<"{">>) \o quote(K_worlds)
    \o Chars(<<":", "{", "\"", "\\", "u", "0", "0", "6", "1", "\"", ":", "{">>)
    \o quote(K_docs)
    \o Chars(<<":", "\"", "\\", "u", "0", "0", "4", "1", "\\", "b", "\\", "f",
                "\\", "/", "\\", "u", "0", "0", "E", "9",
                "\\", "u", "d", "8", "3", "d", "\\", "u", "D", "E", "0", "0",
                "\"", "}", "}", "}">>))
S_pd_bad == Custom(SECTION_NAME, <<VERSION_BYTE, Ch.x>>)

SectionPool ==
  {S_other, S_corrupt, S_custom_other, S_pd_empty, S_pd_one, S_pd_old, S_pd_bad}

Modules == UNION {[1..n -> SectionPool] : n \in 0..MaxSections}

\* the weaver has not been called
WitIdleInit ==
  /\ wit_text = <<>>
  /\ docs = None
  /\ lines = <<>>
  /\ i = 0
  /\ result = <<>>
  /\ world_name = <<>>
  /\ pc = "idle"
  /\ trace = <<>>

Init ==
  /\ files \in {[p \in Paths |-> IF p = "component" THEN File(m) ELSE NoFile] : m \in Modules}
  /\ injects = 0
  /\ inj_exit = "none"
  /\ meta = None
  /\ out_path = "component"
  /\ wasm_bytes = NoFile
  /\ docs_json = Unset
  /\ WitIdleInit

\* main of the injector (src/main.rs): wit_ok is whether the WIT dir
\* parses, tree the documentation it holds, inplace the --inplace flag,
\* rr the outcome of the re-encoding
Inject(tree, wit_ok, inplace, rr) ==
  /\ injects < MaxInject
  /\ rr \in reencode(files["component"].sections)
  /\ injects' = injects + 1
  /\ LET section == Custom(SECTION_NAME, encode(tree))
         path == IF inplace THEN "component" ELSE "out"
     IN IF wit_ok /\ rr.ok
        THEN /\ files' = [files EXCEPT ![path] = File(Append(rr.sections, section))]
             /\ inj_exit' = "ok"
             /\ meta' = tree
             /\ out_path' = path
        ELSE /\ inj_exit' = "err"
             /\ UNCHANGED <<files, meta, out_path>>
  /\ UNCHANGED <<wasm_bytes, docs_json>>
  /\ UNCHANGED witvars

\* main of the viewer (src/bin/wit-docs-view.rs) up to display_docs
View(path) ==
  /\ wasm_bytes' = files[path]
  /\ docs_json' = IF files[path].exists
                  THEN extract_package_docs(files[path])
                  ELSE Err("Failed to read component file")
  /\ UNCHANGED <<files, injects, inj_exit, meta, out_path>>
  /\ UNCHANGED witvars

Next ==
  \/ \E tree \in TreePool, wit_ok \in BOOLEAN, inplace \in BOOLEAN :
       \E rr \in reencode(files["component"].sections) :
         Inject(tree, wit_ok, inplace, rr)
  \/ \E path \in Paths : View(path)

Spec == Init /\ [][Next]_vars

(* --------------- properties of the injector and the viewer ------------ *)
IsPackageDocs(x) == x.kind = "custom" /\ x.name = SECTION_NAME
Valid(secs) == \A k \in 1..Len(secs) : secs[k].kind # "corrupt"
HasPackageDocs(secs) == \E k \in 1..Len(secs) : IsPackageDocs(secs[k])
FirstPackageDocs(secs) ==
  secs[CHOOSE k \in 1..Len(secs) :
         IsPackageDocs(secs[k]) /\ \A j \in 1..(k - 1) : ~IsPackageDocs(secs[j])]
Front(secs) == SubSeq(secs, 1, Len(secs) - 1)

\* the viewer has run on the module the injector wrote last
ViewedInjected ==
  /\ meta # None
  /\ docs_json # Unset
  /\ wasm_bytes = files[out_path]

\* C1 as claimed: for every module M, extraction from the module the
\* injector wrote for T returns T.
Cex_C1_RoundTripAnyModule == ViewedInjected => docs_json = OkSome(meta)

\* C1, amended: when the input module holds no custom section named
\* package-docs, extraction from the module the injector wrote for T
\* returns exactly T.
Thm_C1_RoundTrip ==
  (ViewedInjected /\ ~HasPackageDocs(Front(wasm_bytes.sections)))
  => docs_json = OkSome(meta)

Wit_C1 ==
  /\ ViewedInjected
  /\ meta = D_escaped
  /\ wasm_bytes.sections = <<S_other, S_custom_other, Custom(SECTION_NAME, encode(D_escaped))>>
  /\ docs_json = OkSome(D_escaped)

\* C3 as claimed: when the first package-docs section of a valid module
\* has at most one byte of data, extraction yields no documentation.
Cex_C3_ShortPayload ==
  (/\ docs_json # Unset
   /\ wasm_bytes.exists
   /\ Valid(wasm_bytes.sections)
   /\ HasPackageDocs(wasm_bytes.sections)
   /\ Len(FirstPackageDocs(wasm_bytes.sections).data) <= 1)
  => docs_json = OkNone

\* what one section's data yields by itself: no documentation for at most
\* one byte, else the decoded documentation or the decode error
OutcomeOf(data) ==
  IF Len(data) <= 1 THEN OkNone
  ELSE IF from_slice(Tail(data)).ok THEN OkSome(from_slice(Tail(data)).val)
  ELSE Err("Failed to parse package-docs JSON")

\* C4 as claimed: the outcome of extraction from a valid module is that
\* of its first package-docs section alone, whatever follows it.
Cex_C4_FirstMatchOnly ==
  (/\ docs_json # Unset
   /\ wasm_bytes.exists
   /\ Valid(wasm_bytes.sections)
   /\ HasPackageDocs(wasm_bytes.sections))
  => docs_json = OutcomeOf(FirstPackageDocs(wasm_bytes.sections).data)

(* ------------------------ inject_docs_into_wit ------------------------ *)
\* the weaver runs alone: no file, neither program has run
ModIdleInit ==
  /\ files = [p \in Paths |-> NoFile]
  /\ injects = 0
  /\ inj_exit = "none"
  /\ meta = None
  /\ out_path = "component"
  /\ wasm_bytes = NoFile
  /\ docs_json = Unset

WitInit ==
  /\ wit_text \in Renderings
  /\ docs \in DocPool
  /\ lines = <<>>
  /\ i = 0
  /\ result = <<>>
  /\ world_name = <<>>
  /\ pc = "start"
  /\ trace = <<>>
  /\ ModIdleInit

\* Option<String> -> the lines of the string (no line for None)
opt_lines(o) == IF o = None THEN <<>> ELSE str_lines(o.val)

inserted(n, at) == [k \in 1..n |-> [src |-> 0, at |-> at]]

\* let lines: Vec<&str> = wit_text.lines().collect(); let mut i = 0;
WitStart ==
  /\ pc = "start"
  /\ lines' = str_lines(wit_text)
  /\ pc' = "top"
  /\ UNCHANGED <<wit_text, docs, i, result, world_name, trace>>
  /\ UNCHANGED modvars

\* outer loop, a line that starts a world scope
ScanWorld ==
  /\ pc = "top"
  /\ i < Len(lines)
  /\ LET line == trim(lines[i + 1])
     IN /\ starts_with(line, KW_world)
        /\ LET name == extract_world_name(line)
               dl == opt_lines(get_world_docs(docs, name))
           IN /\ world_name' = name
              /\ result' = result \o doc_block(<<>>, dl) \o lines[i + 1] \o NL
              /\ trace' = trace \o inserted(Len(dl), "top")
                                \o <<[src |-> i + 1, at |-> "top"]>>
  /\ i' = i + 1
  /\ pc' = "body"
  /\ UNCHANGED <<wit_text, docs, lines>>
  /\ UNCHANGED modvars

\* outer loop, any other line
ScanOther ==
  /\ pc = "top"
  /\ i < Len(lines)
  /\ ~starts_with(trim(lines[i + 1]), KW_world)
  /\ result' = result \o lines[i + 1] \o NL
  /\ trace' = Append(trace, [src |-> i + 1, at |-> "top"])
  /\ i' = i + 1
  /\ UNCHANGED <<wit_text, docs, lines, world_name, pc>>
  /\ UNCHANGED modvars

\* the documentation lines pushed before body line current_line
body_docs(d, name, current_line) ==
  LET trimmed == trim(current_line)
  IN IF starts_with(trimmed, KW_export) \/ starts_with(trimmed, KW_import)
     THEN LET func_name == extract_function_name(trimmed)
          IN IF func_name # None
             THEN doc_block(get_indent(current_line),
                            opt_lines(get_function_docs(d, name, func_name.val)))
             ELSE <<>>
     ELSE <<>>

\* if trimmed == "}" { break; }: where the scanner is after a body line
after_body_never(trimmed) == "body"

after_body(trimmed) == IF trimmed = S_close THEN "top" ELSE "body"

\* inner loop, one line of the world body
ScanBody ==
  /\ pc = "body"
  /\ i < Len(lines)
  /\ LET current_line == lines[i + 1]
         trimmed == trim(current_line)
         block == body_docs(docs, world_name, current_line)
     IN /\ result' = result \o block \o current_line \o NL
        /\ trace' = trace \o inserted(Len(str_lines(block)), "body")
                          \o <<[src |-> i + 1, at |-> "body"]>>
        /\ pc' = after_body(trimmed)
  /\ i' = i + 1
  /\ UNCHANGED <<wit_text, docs, lines, world_name>>
  /\ UNCHANGED modvars

\* both loops end when i reaches lines.len(): Ok(result)
ScanReturn ==
  /\ pc \in {"top", "body"}
  /\ i >= Len(lines)
  /\ pc' = "done"
  /\ UNCHANGED <<wit_text, docs, lines, i, result, world_name, trace>>
  /\ UNCHANGED modvars

WitNext == WitStart \/ ScanWorld \/ ScanOther \/ ScanBody \/ ScanReturn

WitSpec == WitInit /\ [][WitNext]_vars

(* ---------------------- properties of the weaver ---------------------- *)
OutLines == str_lines(result)

\* the leading whitespace of a line, stated without trim_start
LeadingWS(line) ==
  LET n == CHOOSE n \in 0..Len(line) :
             /\ \A k \in 1..n : line[k] \in WS
             /\ n = Len(line) \/ line[n + 1] \notin WS
  IN SubSeq(line, 1, n)

\* one comment line per documentation line, each behind `indent`
Block(indent, dl) == concat([k \in 1..Len(dl) |-> indent \o S_doc \o dl[k] \o NL])

IsWorldLine(line) == starts_with(trim(line), KW_world)
IsFuncLine(line) ==
  starts_with(trim(line), KW_export) \/ starts_with(trim(line), KW_import)

\* the worlds of a tree: its names, and the documentation object of a name
WorldKeys(d) ==
  IF d.kind = "object" /\ K_worlds \in DOMAIN d.val /\ d.val[K_worlds].kind = "object"
  THEN DOMAIN d.val[K_worlds].val ELSE {}
WorldOf(d, k) == d.val[K_worlds].val[k]
SoleWorld(d) == WorldOf(d, CHOOSE k \in WorldKeys(d) : TRUE)

\* a step that consumes line i + 1 at the top level / inside a body
TopStep == pc = "top" /\ i' = i + 1
BodyStep == pc = "body" /\ i' = i + 1

\* C5: single-world fallback.  When the tree has exactly one world and a
\* world line declares another name, the docs inserted before the world
\* line are the sole world's docs, and the docs inserted before every
\* export/import line of that scope are the sole world's function docs.
Thm_C5_SingleWorldFallback ==
  [][ Cardinality(WorldKeys(docs)) = 1 =>
        /\ (TopStep /\ IsWorldLine(lines[i + 1])
              /\ extract_world_name(trim(lines[i + 1])) \notin WorldKeys(docs))
           => result' = result
                  \o Block(<<>>, opt_lines(as_str(get(SoleWorld(docs), K_docs))))
                  \o lines[i + 1] \o NL
        /\ (BodyStep /\ IsFuncLine(lines[i + 1]) /\ world_name \notin WorldKeys(docs)
              /\ extract_function_name(trim(lines[i + 1])) # None)
           => result' = result
                  \o Block(LeadingWS(lines[i + 1]),
                           opt_lines(get_function_docs_from_world(SoleWorld(docs),
                               extract_function_name(trim(lines[i + 1])).val)))
                  \o lines[i + 1] \o NL
    ]_vars

Wit_C5 ==
  /\ pc = "done"
  /\ docs = D_single
  /\ lines = <<L_world_other, L_export_run, L_close>>
  /\ OutLines = <<Chars(<<"/","/","/"," ","a">>), Chars(<<"/","/","/"," ","b">>),
                  L_world_other, Chars(<<" "," ">>) \o S_doc \o T_runs, L_export_run,
                  L_close>>

\* C6: multi-world no-fallback.  When the tree has no world or at least
\* two, and no world line of the rendering names a world of the tree, the
\* output lines are the input lines.
Thm_C6_NoFallback ==
  (/\ pc = "done"
   /\ Cardinality(WorldKeys(docs)) # 1
   /\ \A k \in 1..Len(lines) :
        IsWorldLine(lines[k]) => extract_world_name(trim(lines[k])) \notin WorldKeys(docs))
  => OutLines = lines

Wit_C6 ==
  /\ pc = "done"
  /\ docs = D_two
  /\ lines = <<L_world_other, L_export_run, L_close>>
  /\ OutLines = lines

\* the docs of func_exports[f] if f is there, otherwise those of
\* functions[f] if f is there, otherwise none
ClaimedFunctionDocs(world, f) ==
  LET fe == as_object(get(world, K_func_exports))
      fn == as_object(get(world, K_functions))
  IN IF get(fe, f) # None THEN as_str(get(get(fe, f), K_docs))
     ELSE IF get(fn, f) # None THEN as_str(get(get(fn, f), K_docs))
     ELSE None

\* C7 as claimed: before an export/import line of a scope whose world
\* is in the tree, the inserted docs are those of the first collection,
\* func_exports then functions, in which the function name is found.
Cex_C7_PerFunctionFallThrough ==
  [][ (BodyStep /\ IsFuncLine(lines[i + 1]) /\ world_name \in WorldKeys(docs)
         /\ extract_function_name(trim(lines[i + 1])) # None)
      => result' = result
             \o Block(LeadingWS(lines[i + 1]),
                      opt_lines(ClaimedFunctionDocs(WorldOf(docs, world_name),
                          extract_function_name(trim(lines[i + 1])).val)))
             \o lines[i + 1] \o NL
    ]_vars

\* C8: indentation fidelity.  Before an export/import line of a world
\* body whose function resolves to documentation D, the output gets one
\* line per line of D: the declaration's leading whitespace, "/// ", the
\* documentation line; then the declaration line itself.
Thm_C8_IndentationFidelity ==
  [][ (BodyStep /\ IsFuncLine(lines[i + 1])
         /\ extract_function_name(trim(lines[i + 1])) # None)
      => LET D == get_function_docs(docs, world_name,
                      extract_function_name(trim(lines[i + 1])).val)
         IN D # None =>
              result' = result
                  \o Block(LeadingWS(lines[i + 1]), str_lines(D.val))
                  \o lines[i + 1] \o NL
    ]_vars

Wit_C8 ==
  /\ pc = "done"
  /\ docs = D_single
  /\ lines = <<L_world_app, L_import_foo>>
  /\ OutLines = <<Chars(<<"/","/","/"," ","a">>), Chars(<<"/","/","/"," ","b">>),
                  L_world_app, Chars(<<"\t">>) \o S_doc \o Chars(<<"x">>),
                  Chars(<<"\t">>) \o S_doc \o Chars(<<"y">>), L_import_foo>>

Copied(p) == trace[p].src # 0
NextCopied(p) == CHOOSE q \in p..Len(trace) : Copied(q) /\ \A r \in p..(q - 1) : ~Copied(r)

ExampleText == join_lines(<<L_world_app, L_export_run, L_close>>)
ExampleOutput ==
  <<S_doc \o T_top, L_world_app, Chars(<<" "," ">>) \o S_doc \o T_runs, L_export_run,
    L_close>>

\* the output is the input lines, each once, unmodified and in order, plus
\* inserted "/// " lines, each in a block right before a world line copied
\* at the top level (unindented) or an export/import line copied in a body
InsertOnly ==
  /\ Len(trace) = Len(OutLines)
  /\ pc = "done" =>
       /\ Len(SelectSeq(trace, LAMBDA e : e.src # 0)) = Len(lines)
       /\ \A p \in 1..Len(trace) : \A q \in 1..Len(trace) :
            (p < q /\ Copied(p) /\ Copied(q)) => trace[p].src < trace[q].src
       /\ \A p \in 1..Len(trace) :
            IF Copied(p) THEN OutLines[p] = lines[trace[p].src]
            ELSE /\ starts_with(trim_start(OutLines[p]), S_doc)
                 /\ \E q \in p..Len(trace) : Copied(q)
                 /\ LET q == NextCopied(p)
                    IN \/ /\ trace[q].at = "top"
                          /\ IsWorldLine(OutLines[q])
                          /\ starts_with(OutLines[p], S_doc)
                       \/ /\ trace[q].at = "body"
                          /\ IsFuncLine(OutLines[q])
       /\ (wit_text = ExampleText /\ docs = D_example) => OutLines = ExampleOutput

\* what is left of the pass: it falls with every step, so the pass ends
Remaining ==
  CASE pc = "start" -> Len(str_lines(wit_text)) + 2
    [] pc = "done" -> 0
    [] OTHER -> Len(lines) - i + 1

\* C9: insert-only weaving.  The pass always ends (every step lowers
\* Remaining); its output is the input lines, each once, unmodified and in
\* order, plus inserted "/// " lines, which stand only right before a
\* world line (unindented) or before an export/import line of a body; the
\* end-to-end scenario gives the stated five lines.
Thm_C9_InsertOnly ==
  /\ []InsertOnly
  /\ [](i <= Len(lines) /\ Remaining >= 0)
  /\ [][Remaining' < Remaining]_vars

Wit_C9 ==
  /\ pc = "done"
  /\ wit_text = ExampleText
  /\ docs = D_example
  /\ result = join_lines(ExampleOutput)

\* C10: two-state scanning.  A scope is entered only by a top-level step
\* on a world line; a body step returns to the top level exactly when its
\* line trims to "}"; a top-level step on any line but a world line, and
\* so on an export/import line outside a scope, copies the line alone; a
\* world line inside a body neither leaves the body nor changes the name.
Thm_C10_TwoStateScanner ==
  [][ /\ (pc = "top" /\ pc' = "body") => (i' = i + 1 /\ IsWorldLine(lines[i + 1]))
      /\ (TopStep /\ IsWorldLine(lines[i + 1])) => pc' = "body"
      /\ (TopStep /\ ~IsWorldLine(lines[i + 1]))
           => (pc' = "top" /\ result' = result \o lines[i + 1] \o NL)
      /\ BodyStep => /\ pc' = (IF trim(lines[i + 1]) = S_close THEN "top" ELSE "body")
                     /\ world_name' = world_name
      /\ (BodyStep /\ ~IsFuncLine(lines[i + 1]))
           => result' = result \o lines[i + 1] \o NL
    ]_vars

Wit_C10 ==
  /\ pc = "done"
  /\ docs = D_example
  /\ lines = <<L_world_app, L_close, L_export_run>>
  /\ OutLines = <<S_doc \o T_top, L_world_app, L_close, L_export_run>>
  /\ trace[4] = [src |-> 3, at |-> "top"]

====
